---- MODULE Spec2Model ----
(***************************************************************************)
(* Model of netflix_analysis.py: main() runs load_and_clean_data and five  *)
(* analysis stages over one in-memory table inside a try block with two    *)
(* except clauses.                                                         *)
(*                                                                         *)
(* Text is modelled as a sequence of tokens (pieces of text that are never *)
(* split further).  Every cell of a table is a sequence; the empty         *)
(* sequence is the null of its column (NaN / NaT): read_csv reads an empty *)
(* field as NaN, so no text cell of the table is the empty string.         *)
(***************************************************************************)
EXTENDS Integers, Sequences, FiniteSets, TLC

VARIABLES file, raw, df, movies, pc, console, charts, completed,
          type_counts, data_by_year, genres, durations, release_years,
          chart_order

vars == <<file, raw, df, movies, pc, console, charts, completed,
          type_counts, data_by_year, genres, durations, release_years,
          chart_order>>

(***************************************************************************)
(* Bounds of the model.                                                    *)
(***************************************************************************)
MaxRows == 3
MaxYears == 12
MaxExtra == 3

(***************************************************************************)
(* Program constants.                                                      *)
(***************************************************************************)
TopN == 10

NaN == << >>
NaT == << >>

isnull(c) == c = << >>

Unknown == <<"Unknown">>

Range(s) == {s[i] : i \in 1..Len(s)}

\* Sum of the cnt fields of a sequence of [value, cnt] entries.
RECURSIVE SumCnt(_)
SumCnt(s) == IF s = << >> THEN 0 ELSE Head(s).cnt + SumCnt(Tail(s))

(***************************************************************************)
(* pd.read_csv: a field that is empty or one of the default NA spellings   *)
(* becomes NaN; every other field is kept as text.                         *)
(***************************************************************************)
NaValues == {<< >>, <<"N/A">>, <<"NaN">>}

TextColumns == {"type", "director", "cast", "country", "date_added",
                "rating", "duration", "listed_in"}

read_cell(c) == IF c \in NaValues THEN NaN ELSE c

read_row(r) == [col \in DOMAIN r |->
                  IF col \in TextColumns THEN read_cell(r[col]) ELSE r[col]]

read_csv(t) == [i \in 1..Len(t) |-> read_row(t[i])]

Digits == {"0", "1", "2", "3", "4", "5", "6", "7", "8", "9"}

DigitVal == [d \in Digits |->
               CASE d = "0" -> 0 [] d = "1" -> 1 [] d = "2" -> 2 [] d = "3" -> 3
                 [] d = "4" -> 4 [] d = "5" -> 5 [] d = "6" -> 6 [] d = "7" -> 7
                 [] d = "8" -> 8 [] d = "9" -> 9]

IsNumericText(s) == s # << >> /\ \A i \in 1..Len(s) : s[i] \in Digits

(***************************************************************************)
(* The dtype read_csv infers for a text column: object when the file has   *)
(* no rows or some non-null field is not a number, numeric otherwise.  The *)
(* .str accessor raises AttributeError on a column that is not object.     *)
(***************************************************************************)
IsObjectColumn(t, col) ==
  \/ t = << >>
  \/ \E i \in 1..Len(t) : ~isnull(t[i][col]) /\ ~IsNumericText(t[i][col])

(***************************************************************************)
(* fillna('Unknown') on director, cast, country.                           *)
(***************************************************************************)
FilledColumns == {"director", "cast", "country"}

fillna_mut(r) == [col \in DOMAIN r |->
                    IF col \in {"director", "cast"} /\ isnull(r[col])
                    THEN Unknown ELSE r[col]]

fillna(r) == [col \in DOMAIN r |->
                IF col \in FilledColumns /\ isnull(r[col]) THEN Unknown ELSE r[col]]

(***************************************************************************)
(* dropna(subset=['date_added', 'rating']).                                *)
(***************************************************************************)
keep_mut(r) == ~isnull(r.date_added)

keep(r) == ~isnull(r.date_added) /\ ~isnull(r.rating)

dropna(t) == SelectSeq(t, keep)

(***************************************************************************)
(* str.strip(): leading and trailing whitespace removed.                   *)
(***************************************************************************)
Whitespace == {" "}

RECURSIVE lstrip(_)
lstrip(s) == IF s # << >> /\ Head(s) \in Whitespace THEN lstrip(Tail(s)) ELSE s

RECURSIVE rstrip(_)
rstrip(s) == IF s # << >> /\ s[Len(s)] \in Whitespace
             THEN rstrip(SubSeq(s, 1, Len(s) - 1)) ELSE s

strip(s) == rstrip(lstrip(s))

(***************************************************************************)
(* pd.to_datetime(format='mixed', errors='coerce'): each text is parsed on *)
(* its own; "Month D, YYYY" and "YYYY-MM-DD" are dates, any text that is   *)
(* not a date becomes NaT.  A date is <<year, month, day>>.                *)
(***************************************************************************)
month_names == <<"January", "February", "March", "April", "May", "June",
                 "July", "August", "September", "October", "November",
                 "December">>

MonthNo(name) == CHOOSE m \in 1..12 : month_names[m] = name

YearTokens == [tok \in {"2017", "2019", "2021"} |->
                 CASE tok = "2017" -> 2017 [] tok = "2019" -> 2019
                   [] tok = "2021" -> 2021]

DayTokens == [tok \in {"4", "25", "01"} |->
                CASE tok = "4" -> 4 [] tok = "25" -> 25 [] tok = "01" -> 1]

MonthTokens == [tok \in {"01", "09"} |->
                  CASE tok = "01" -> 1 [] tok = "09" -> 9]

IsLongDate(s) ==
  /\ Len(s) = 6
  /\ s[1] \in Range(month_names) /\ s[2] = " " /\ s[3] \in DOMAIN DayTokens
  /\ s[4] = "," /\ s[5] = " " /\ s[6] \in DOMAIN YearTokens

IsIsoDate(s) ==
  /\ Len(s) = 5
  /\ s[1] \in DOMAIN YearTokens /\ s[2] = "-" /\ s[3] \in DOMAIN MonthTokens
  /\ s[4] = "-" /\ s[5] \in DOMAIN DayTokens

to_datetime(s) ==
  IF IsLongDate(s) THEN <<YearTokens[s[6]], MonthNo(s[1]), DayTokens[s[3]]>>
  ELSE IF IsIsoDate(s) THEN <<YearTokens[s[1]], MonthTokens[s[3]], DayTokens[s[5]]>>
  ELSE NaT

\* .dt.year and .dt.month_name(): null for NaT.
dt_year_mut(d) == IF d = NaT THEN NaN ELSE <<d[1] + 1>>

dt_year(d) == IF d = NaT THEN NaN ELSE <<d[1]>>

dt_month_name(d) == IF d = NaT THEN NaN ELSE <<month_names[d[2]]>>

\* Lines 33-38 on one row that survived dropna.
parse_row(r) ==
  LET d == to_datetime(strip(r.date_added))
      base == [col \in DOMAIN r |-> IF col = "date_added" THEN d ELSE r[col]]
  IN  [col \in DOMAIN r \cup {"year_added", "month_added"} |->
         IF col = "year_added" THEN dt_year(d)
         ELSE IF col = "month_added" THEN dt_month_name(d)
         ELSE base[col]]

\* The table load_and_clean_data returns for the file content t.
clean(t) ==
  LET read == read_csv(t)
      filled == [i \in 1..Len(read) |-> fillna(read[i])]
      kept == dropna(filled)
  IN  [i \in 1..Len(kept) |-> parse_row(kept[i])]

\* load_and_clean_data raises when date_added was not read as text.
clean_raises(t) == ~IsObjectColumn(read_csv(t), "date_added")

(***************************************************************************)
(* Series.value_counts(): null values are left out; the distinct values    *)
(* are counted in order of first appearance and sorted by descending count *)
(* with equal counts left in that order.  The result is a sequence of      *)
(* [value, cnt] entries.                                                   *)
(***************************************************************************)
dropna_values(s) == SelectSeq(s, LAMBDA v : ~isnull(v))

Occurrences(s, v) == Cardinality({i \in 1..Len(s) : s[i] = v})

RECURSIVE unique(_)
unique(s) ==
  IF s = << >> THEN << >>
  ELSE LET init == SubSeq(s, 1, Len(s) - 1)
           last == s[Len(s)]
       IN  IF last \in Range(init) THEN unique(init)
           ELSE Append(unique(init), last)

\* Place e behind every entry whose count is at least its own.
insert_desc(sorted, e) ==
  LET p == Cardinality({i \in 1..Len(sorted) : sorted[i].cnt >= e.cnt})
  IN  SubSeq(sorted, 1, p) \o <<e>> \o SubSeq(sorted, p + 1, Len(sorted))

RECURSIVE sort_desc(_)
sort_desc(s) ==
  IF s = << >> THEN << >>
  ELSE insert_desc(sort_desc(SubSeq(s, 1, Len(s) - 1)), s[Len(s)])

value_counts_mut(s) ==
  LET u == unique(s)
  IN  sort_desc([i \in 1..Len(u) |-> [value |-> u[i], cnt |-> Occurrences(s, u[i])]])

value_counts(s) ==
  LET vals == dropna_values(s)
      u == unique(vals)
  IN  sort_desc([i \in 1..Len(u) |-> [value |-> u[i], cnt |-> Occurrences(vals, u[i])]])

head_mut(s, n) == SubSeq(s, 1, IF Len(s) < n - 1 THEN Len(s) ELSE n - 1)

head(s, n) == SubSeq(s, 1, IF Len(s) < n THEN Len(s) ELSE n)

column(t, col) == [i \in 1..Len(t) |-> t[i][col]]

(***************************************************************************)
(* groupby('year_added').size(): rows with a null key are left out and the *)
(* groups come in ascending key order.                                     *)
(***************************************************************************)
RECURSIVE sort_keys(_)
sort_keys(S) ==
  IF S = {} THEN << >>
  ELSE LET m == CHOOSE x \in S : \A y \in S : x[1] <= y[1]
       IN  <<m>> \o sort_keys(S \ {m})

groupby_size(t, col) ==
  LET vals == dropna_values(column(t, col))
      keys == sort_keys(Range(vals))
  IN  [i \in 1..Len(keys) |-> [value |-> keys[i], cnt |-> Occurrences(vals, keys[i])]]

(***************************************************************************)
(* str.split(', '): the pieces between the occurrences of a comma followed *)
(* by a space.  expand=True and stack() then give one entry per piece of   *)
(* each row in row order; a null cell gives no entry.                      *)
(***************************************************************************)
RECURSIVE split_from(_, _)
split_from(s, piece) ==
  IF s = << >> THEN <<piece>>
  ELSE IF Len(s) >= 2 /\ s[1] = "," /\ s[2] = " "
       THEN <<piece>> \o split_from(SubSeq(s, 3, Len(s)), << >>)
       ELSE split_from(Tail(s), Append(piece, Head(s)))

split_mut(s) == <<s>>

split(s) == split_from(s, << >>)

RECURSIVE split_stack(_)
split_stack(cells) ==
  IF cells = << >> THEN << >>
  ELSE (IF isnull(Head(cells)) THEN << >> ELSE split(Head(cells)))
         \o split_stack(Tail(cells))

(***************************************************************************)
(* str.replace(' min', '', regex=False): every occurrence is removed.      *)
(* pd.to_numeric(errors='coerce'): text made of digits is its number,      *)
(* anything else (a null included) is NaN.                                 *)
(***************************************************************************)
replace_min(s) == SelectSeq(s, LAMBDA tok : tok # " min")

RECURSIVE digits_value(_)
digits_value(s) ==
  IF s = << >> THEN 0
  ELSE 10 * digits_value(SubSeq(s, 1, Len(s) - 1)) + DigitVal[s[Len(s)]]

to_numeric(s) == IF IsNumericText(s) THEN <<digits_value(s)>> ELSE NaN

duration_min(cell) == IF isnull(cell) THEN NaN ELSE to_numeric(replace_min(cell))

numeric_values(s) == [i \in 1..Len(s) |-> s[i][1]]

(***************************************************************************)
(* main(): the try body runs the stages in order; an exception leaving it  *)
(* is matched against the two except clauses, which print one message.     *)
(***************************************************************************)
MsgNotFound == "Error: File not found"
MsgError == "An error occurred"
MsgComplete == "Analysis complete"

except_clause(e) == IF e = "FileNotFoundError" THEN MsgNotFound ELSE MsgError

\* What a failing chart or file-system call inside a stage can raise.
EnvExceptions == {"FileNotFoundError", "PermissionError"}

StageOrder == <<"type", "growth", "genres", "runtime", "years">>

ChartOf(stage) ==
  CASE stage = "type" -> "distribution_type"
    [] stage = "growth" -> "content_growth"
    [] stage = "genres" -> "top_genres"
    [] stage = "runtime" -> "movie_duration_dist"
    [] stage = "years" -> "top_release_years"

ChartOrder == [i \in 1..Len(StageOrder) |-> ChartOf(StageOrder[i])]

HeaderOf(stage) ==
  CASE stage = "type" -> "--- Movies vs TV Shows ---"
    [] stage = "growth" -> "--- Content Growth Over Time ---"
    [] stage = "genres" -> "--- Top Genres ---"
    [] stage = "runtime" -> "--- Runtime Analysis ---"
    [] stage = "years" -> "--- Top Release Years ---"

Headers == {HeaderOf(StageOrder[i]) : i \in 1..Len(StageOrder)}

NextStage(stage) ==
  CASE stage = "type" -> "growth"
    [] stage = "growth" -> "genres"
    [] stage = "genres" -> "runtime"
    [] stage = "runtime" -> "years"
    [] stage = "years" -> "complete"

(***************************************************************************)
(* The control part of one stage.  The stage prints its header, computes   *)
(* and prints its summary, then draws and saves its chart.  data_raises:   *)
(* the computation raises AttributeError; env: what the chart or file      *)
(* system call raises ("ok" when nothing), wrote: whether the chart file   *)
(* was created before that.                                                *)
(***************************************************************************)
RunStage_mut(stage, data_raises, env, wrote) ==
  IF data_raises
  THEN /\ console' = console \o <<HeaderOf(stage), except_clause("AttributeError")>>
       /\ charts' = charts
       /\ completed' = completed
       /\ pc' = "exit"
  ELSE IF env # "ok"
  THEN /\ console' = console \o <<HeaderOf(stage), except_clause(env)>>
       /\ charts' = (IF wrote THEN Append(charts, ChartOf(stage)) ELSE charts)
       /\ completed' = completed
       /\ pc' = NextStage(stage)
  ELSE /\ console' = Append(console, HeaderOf(stage))
       /\ charts' = Append(charts, ChartOf(stage))
       /\ completed' = Append(completed, stage)
       /\ pc' = NextStage(stage)

RunStage(stage, data_raises, env, wrote) ==
  IF data_raises
  THEN /\ console' = console \o <<HeaderOf(stage), except_clause("AttributeError")>>
       /\ charts' = charts
       /\ completed' = completed
       /\ pc' = "exit"
  ELSE IF env # "ok"
  THEN /\ console' = console \o <<HeaderOf(stage), except_clause(env)>>
       /\ charts' = (IF wrote THEN Append(charts, ChartOf(stage)) ELSE charts)
       /\ completed' = completed
       /\ pc' = "exit"
  ELSE /\ console' = Append(console, HeaderOf(stage))
       /\ charts' = Append(charts, ChartOf(stage))
       /\ completed' = Append(completed, stage)
       /\ pc' = NextStage(stage)

load_exception ==
  IF file = "missing" THEN "FileNotFoundError"
  ELSE IF file = "malformed" THEN "ParserError"
  ELSE IF clean_raises(raw) THEN "AttributeError"
  ELSE "none"

load_and_clean_data ==
  /\ pc = "load"
  /\ IF load_exception # "none"
     THEN /\ console' = console \o
                (IF file = "ok"
                 THEN <<"Loading data", "Missing values before cleaning">>
                 ELSE <<"Loading data">>)
                \o <<except_clause(load_exception)>>
          /\ pc' = "exit"
          /\ df' = df
     ELSE /\ console' = console \o <<"Loading data", "Missing values before cleaning",
                                     "Missing values after cleaning">>
          /\ pc' = "type"
          /\ df' = clean(raw)
  /\ UNCHANGED <<file, raw, movies, charts, completed, type_counts, data_by_year,
                 genres, durations, release_years, chart_order>>

analyze_movies_vs_tv_shows ==
  /\ pc = "type"
  /\ \E env \in {"ok"} \cup EnvExceptions, wrote \in BOOLEAN :
       RunStage("type", FALSE, env, wrote)
  /\ type_counts' = value_counts(column(df, "type"))
  /\ UNCHANGED <<file, raw, df, movies, data_by_year, genres, durations,
                 release_years, chart_order>>

analyze_content_growth ==
  /\ pc = "growth"
  /\ \E env \in {"ok"} \cup EnvExceptions, wrote \in BOOLEAN :
       RunStage("growth", FALSE, env, wrote)
  /\ data_by_year' = groupby_size(df, "year_added")
  /\ UNCHANGED <<file, raw, df, movies, type_counts, genres, durations,
                 release_years, chart_order>>

genres_raise == ~IsObjectColumn(read_csv(raw), "listed_in")

identify_top_genres ==
  /\ pc = "genres"
  /\ \E env \in {"ok"} \cup EnvExceptions, wrote \in BOOLEAN :
       RunStage("genres", genres_raise, env, wrote)
  /\ genres' = (IF genres_raise THEN genres
                ELSE value_counts(split_stack(column(df, "listed_in"))))
  /\ UNCHANGED <<file, raw, df, movies, type_counts, data_by_year, durations,
                 release_years, chart_order>>

(***************************************************************************)
(* analyze_runtime: movies is a new table holding copies of the Movie      *)
(* rows; frame names the table the later column assignment writes to.      *)
(***************************************************************************)
is_movie(r) == r.type = <<"Movie">>

select_movies_mut(t) == [frame |-> "df", rows |-> t]

select_movies(t) == [frame |-> "copy", rows |-> SelectSeq(t, is_movie)]

assign_duration_min(rows) ==
  [i \in 1..Len(rows) |->
     [col \in DOMAIN rows[i] \cup {"duration_min"} |->
        IF col = "duration_min" THEN duration_min(rows[i].duration)
        ELSE rows[i][col]]]

runtime_raise == ~IsObjectColumn(read_csv(raw), "duration")

analyze_runtime ==
  /\ pc = "runtime"
  /\ \E env \in {"ok"} \cup EnvExceptions, wrote \in BOOLEAN :
       RunStage("runtime", runtime_raise, env, wrote)
  /\ LET m == select_movies(df)
         assigned == assign_duration_min(m.rows)
     IN  IF runtime_raise
         THEN movies' = m.rows /\ df' = df /\ durations' = durations
         ELSE /\ movies' = assigned
              /\ df' = (IF m.frame = "df" THEN assigned ELSE df)
              /\ durations' = numeric_values(dropna_values(column(assigned, "duration_min")))
  /\ UNCHANGED <<file, raw, type_counts, data_by_year, genres, release_years,
                 chart_order>>

analyze_release_years ==
  /\ pc = "years"
  /\ \E env \in {"ok"} \cup EnvExceptions, wrote \in BOOLEAN :
       RunStage("years", FALSE, env, wrote)
  /\ release_years' = head(value_counts(column(df, "release_year")), TopN)
  /\ chart_order' = [i \in 1..Len(release_years') |-> release_years'[i].value]
  /\ UNCHANGED <<file, raw, df, movies, type_counts, data_by_year, genres, durations>>

\* Line 129: the completion message after the last stage returned.
main_complete ==
  /\ pc = "complete"
  /\ console' = Append(console, MsgComplete)
  /\ pc' = "exit"
  /\ UNCHANGED <<file, raw, df, movies, charts, completed, type_counts, data_by_year,
                 genres, durations, release_years, chart_order>>

Next ==
  \/ load_and_clean_data
  \/ analyze_movies_vs_tv_shows
  \/ analyze_content_growth
  \/ identify_top_genres
  \/ analyze_runtime
  \/ analyze_release_years
  \/ main_complete

(***************************************************************************)
(* The input files of the model.  A row of the file has the columns the    *)
(* program reads and show_id, its position in the file.  Each family of    *)
(* tables varies the columns one part of the program reads and leaves the  *)
(* others at the values of BaseRow.                                        *)
(***************************************************************************)
LongDate == <<"September", " ", "25", ",", " ", "2021">>

BaseRow ==
  [show_id |-> 0, type |-> <<"Movie">>, director |-> <<"Rajiv">>,
   cast |-> <<"Ama">>, country |-> <<"India">>, date_added |-> LongDate,
   release_year |-> <<2020>>, rating |-> <<"PG">>,
   duration |-> <<"9", "0", " min">>, listed_in |-> <<"Dramas">>]

DateSamples ==
  { << >>,
    LongDate,
    <<" ", "August", " ", "4", ",", " ", "2017">>,
    <<"2019", "-", "01", "-", "01">>,
    <<"soon">>,
    <<" ">> }

RatingSamples == { << >>, <<"PG">> }

TypeSamples == { << >>, <<"Movie">>, <<"TV Show">> }

GenreSamples ==
  { << >>,
    <<"Dramas">>,
    <<"Comedies">>,
    <<"Comedies", ",", " ", "Dramas">>,
    <<"Dramas", ",", " ", "Comedies", ",", " ", "Thrillers">>,
    <<"Dramas", ",", "Comedies">>,
    <<"Dramas", ",", " ", "Dramas">> }

DurationSamples ==
  { << >>,
    <<"N/A">>,
    <<"9", "0", " min">>,
    <<"4", "5", " min">>,
    <<"9", "0">>,
    <<"9", " min", "0">>,
    <<"2", " Seasons">>,
    <<" min">> }

CleanRows ==
  {[BaseRow EXCEPT !.date_added = d, !.rating = r] :
     d \in DateSamples, r \in RatingSamples}

FillRows ==
  {[BaseRow EXCEPT !.director = a, !.cast = b, !.country = c] :
     a \in {<< >>, <<"Rajiv">>}, b \in {<<"N/A">>, <<"Ama">>},
     c \in {<< >>, <<"India">>}}
    \cup { [BaseRow EXCEPT !.duration = << >>],
           [BaseRow EXCEPT !.director = << >>, !.type = << >>, !.listed_in = << >>] }

TypeRows ==
  {[BaseRow EXCEPT !.type = t, !.rating = r] :
     t \in TypeSamples, r \in RatingSamples}

GenreRows == {[BaseRow EXCEPT !.listed_in = g] : g \in GenreSamples}

DurationRows ==
  {[BaseRow EXCEPT !.duration = d] : d \in DurationSamples}
    \cup {[BaseRow EXCEPT !.type = <<"TV Show">>, !.duration = d] :
            d \in {<<"2", " Seasons">>, <<"9", "0", " min">>}}

WithId(t) == [i \in 1..Len(t) |-> [t[i] EXCEPT !.show_id = i]]

TablesOver(rows) == {WithId(t) : t \in UNION {[1..n -> rows] : n \in 0..MaxRows}}

\* Tables over many release years: one row for each of the first n years,
\* followed by up to MaxExtra rows of an early year, of one of the last two
\* years, or of no year.
ExtraYearCells == {<<2001>>, <<2000 + MaxYears - 1>>, <<2000 + MaxYears>>, << >>}

YearTables ==
  {WithId([i \in 1..(n + Len(x)) |->
             [BaseRow EXCEPT !.release_year =
                IF i <= n THEN <<2000 + i>> ELSE x[i - n]]]) :
     x \in UNION {[1..e -> ExtraYearCells] : e \in 0..MaxExtra}, n \in 0..MaxYears}

\* Rows that differ in what the stages read: type, duration, listed_in and
\* date_added.
MainRows ==
  { BaseRow,
    [BaseRow EXCEPT !.duration = << >>],
    [BaseRow EXCEPT !.duration = <<"9", "0">>],
    [BaseRow EXCEPT !.type = <<"TV Show">>, !.duration = <<"2", " Seasons">>],
    [BaseRow EXCEPT !.listed_in = << >>],
    [BaseRow EXCEPT !.date_added = << >>],
    [BaseRow EXCEPT !.date_added = <<"soon">>, !.release_year = <<2019>>] }

InitWith(tables) ==
  /\ file \in {"ok", "missing", "malformed"}
  /\ raw \in (IF file = "ok" THEN tables ELSE {<< >>})
  /\ df = << >>
  /\ movies = << >>
  /\ pc = "load"
  /\ console = << >>
  /\ charts = << >>
  /\ completed = << >>
  /\ type_counts = << >>
  /\ data_by_year = << >>
  /\ genres = << >>
  /\ durations = << >>
  /\ release_years = << >>
  /\ chart_order = << >>

Init == InitWith(TablesOver(MainRows))
InitClean == InitWith(TablesOver(CleanRows))
InitFill == InitWith(TablesOver(FillRows))
InitType == InitWith(TablesOver(TypeRows))
InitGenres == InitWith(TablesOver(GenreRows))
InitRuntime == InitWith(TablesOver(DurationRows))
InitYears == InitWith(YearTables)

Spec == Init /\ [][Next]_vars
SpecClean == InitClean /\ [][Next]_vars
SpecFill == InitFill /\ [][Next]_vars
SpecType == InitType /\ [][Next]_vars
SpecGenres == InitGenres /\ [][Next]_vars
SpecRuntime == InitRuntime /\ [][Next]_vars
SpecYears == InitYears /\ [][Next]_vars

(***************************************************************************)
(* Properties.                                                             *)
(***************************************************************************)
Printed(m) == \E i \in 1..Len(console) : console[i] = m

\* load_and_clean_data has returned its table.
Loaded == Printed("Missing values after cleaning")

\* The row of the file, as read, that the i-th row of df comes from.
RawRow(i) == read_csv(raw)[df[i].show_id]

IsPrefix(s, t) == Len(s) <= Len(t) /\ \A i \in 1..Len(s) : s[i] = t[i]

Descending(s) == \A i \in 1..Len(s), j \in 1..Len(s) : i < j => s[i].cnt >= s[j].cnt

\* C1 as stated: every record of the returned table has a non-null
\* date_added and a non-null rating, records with an unparseable raw date
\* string included.
C1_AllDatesAndRatingsNonNull ==
  Loaded => \A i \in 1..Len(df) : ~isnull(df[i].date_added) /\ ~isnull(df[i].rating)

\* C1 amended: every record of the returned table has a non-null rating and
\* comes from a row whose raw date_added string was present; its date_added
\* is null exactly when that string is not a date (it is neither of the two
\* date samples nor the ISO sample once surrounding blanks are removed).
C1_RatingAndRawDateNonNull ==
  Loaded =>
    \A i \in 1..Len(df) :
      /\ ~isnull(df[i].rating)
      /\ ~isnull(RawRow(i).date_added)
      /\ isnull(df[i].date_added) <=>
           RawRow(i).date_added \in {<<"soon">>, <<" ">>}

C1_Witness ==
  /\ Loaded
  /\ \E i \in 1..Len(df) : isnull(df[i].date_added) /\ RawRow(i).date_added = <<"soon">>
  /\ Len(df) < Len(raw)

\* C10: in the returned table year_added and month_added are both null iff
\* date_added is null; otherwise they are the date's calendar year and full
\* month name; a row dropped for a missing date_added or rating is not in
\* the table, so it has no year_added or month_added.
C10_YearMonthFollowDate ==
  Loaded =>
    /\ \A i \in 1..Len(df) :
         /\ (isnull(df[i].year_added) /\ isnull(df[i].month_added))
              <=> isnull(df[i].date_added)
         /\ isnull(df[i].year_added) <=> isnull(df[i].month_added)
         /\ RawRow(i).date_added = LongDate =>
              df[i].year_added = <<2021>> /\ df[i].month_added = <<"September">>
         /\ RawRow(i).date_added = <<" ", "August", " ", "4", ",", " ", "2017">> =>
              df[i].year_added = <<2017>> /\ df[i].month_added = <<"August">>
         /\ RawRow(i).date_added = <<"2019", "-", "01", "-", "01">> =>
              df[i].year_added = <<2019>> /\ df[i].month_added = <<"January">>
    /\ \A k \in 1..Len(raw) :
         (isnull(raw[k].date_added) \/ isnull(raw[k].rating)) =>
           \A i \in 1..Len(df) : df[i].show_id # k
    /\ \A i \in 1..Len(df), j \in 1..Len(df) : i < j => df[i].show_id < df[j].show_id

C10_Witness ==
  /\ Loaded
  /\ Len(df) < Len(raw)
  /\ \E i \in 1..Len(df) : df[i].year_added = <<2017>> /\ df[i].month_added = <<"August">>
  /\ \E i \in 1..Len(df) : isnull(df[i].year_added) /\ isnull(df[i].month_added)

\* C2: in the returned table director, cast and country are never null: a
\* value absent in the input is "Unknown", a value present is kept, and no
\* other column is filled (its nulls stay null).
C2_FilledWithUnknown ==
  Loaded =>
    \A i \in 1..Len(df) :
      /\ \A col \in {"director", "cast", "country"} :
           /\ ~isnull(df[i][col])
           /\ df[i][col] = (IF raw[df[i].show_id][col] \in {<< >>, <<"N/A">>}
                            THEN <<"Unknown">> ELSE raw[df[i].show_id][col])
      /\ \A col \in {"type", "rating", "duration", "listed_in"} :
           df[i][col] = RawRow(i)[col]
      /\ df[i].release_year = raw[df[i].show_id].release_year

C2_Witness ==
  /\ Loaded
  /\ \E i \in 1..Len(df) :
       /\ raw[df[i].show_id].director = << >> /\ df[i].director = <<"Unknown">>
       /\ raw[df[i].show_id].cast = <<"N/A">> /\ df[i].cast = <<"Unknown">>
       /\ df[i].country = <<"India">>
  /\ \E i \in 1..Len(df) : isnull(df[i].listed_in) /\ isnull(df[i].type)
  /\ \E i \in 1..Len(df) : isnull(df[i].duration)

RECURSIVE SumSeq(_)
SumSeq(s) == IF s = << >> THEN 0 ELSE Head(s) + SumSeq(Tail(s))

NonNullCount(col) == Cardinality({i \in 1..Len(df) : ~isnull(df[i][col])})

TypeCounted == Printed(HeaderOf("type"))

\* C7 as stated: the per-type counts sum to the table's row count and are in
\* descending order.
C7_TypeCountsSumToRowCount ==
  (\E k \in 1..Len(completed) : completed[k] = "type") => SumCnt(type_counts) = Len(df) /\ Descending(type_counts)

\* C7 amended: the per-type counts sum to the number of records whose type
\* is not null (the row count when no type is missing) and are in descending
\* order; a 3-row input with one row missing rating and no type missing gives
\* a 2-row table whose type counts sum to 2.
C7_TypeCountsSumToNonNullTypes ==
  TypeCounted =>
    /\ SumCnt(type_counts) = NonNullCount("type")
    /\ Descending(type_counts)
    /\ \A i \in 1..Len(type_counts) :
         type_counts[i].cnt =
           Cardinality({k \in 1..Len(df) : df[k].type = type_counts[i].value})
    /\ (/\ Len(raw) = 3
        /\ Cardinality({k \in 1..3 : raw[k].rating = << >>}) = 1
        /\ \A k \in 1..3 : raw[k].type # << >>)
         => Len(df) = 2 /\ SumCnt(type_counts) = 2

C7_Witness ==
  /\ TypeCounted
  /\ Len(raw) = 3 /\ Len(df) = 2
  /\ Cardinality({k \in 1..3 : raw[k].rating = << >>}) = 1
  /\ Len(type_counts) = 1 /\ type_counts[1].cnt = 1
  /\ \E i \in 1..Len(df) : isnull(df[i].type)

\* identify_top_genres has computed its counts.
GenresCounted == Printed(HeaderOf("genres")) /\ ~genres_raise

\* The number of genres a listed_in text holds: one more than its number of
\* comma-space separators.
ListedCount(s) ==
  1 + Cardinality({j \in 1..(Len(s) - 1) : s[j] = "," /\ s[j + 1] = " "})

\* The number of times the one-word genre g is an entry of the listed_in text s.
EntriesOf(s, g) ==
  Cardinality({j \in 1..Len(s) :
    /\ s[j] = g
    /\ j = 1 \/ (j >= 3 /\ s[j - 2] = "," /\ s[j - 1] = " ")
    /\ j = Len(s) \/ (j + 2 <= Len(s) /\ s[j + 1] = "," /\ s[j + 2] = " ")})

GenreCount(g) ==
  SumSeq([i \in 1..Len(genres) |-> IF genres[i].value = <<g>> THEN genres[i].cnt ELSE 0])

GenreNames == {"Dramas", "Comedies", "Thrillers"}

\* C6 as stated: the per-genre counts sum to at least the row count, with
\* equality iff every record lists exactly one genre; each listed genre of a
\* record adds 1 to that genre's count.
C6_GenreCountsAtLeastRowCount ==
  (\E k \in 1..Len(completed) : completed[k] = "genres") =>
    /\ SumCnt(genres) >= Len(df)
    /\ SumCnt(genres) = Len(df) <=>
         \A i \in 1..Len(df) : ~isnull(df[i].listed_in) /\ ListedCount(df[i].listed_in) = 1
    /\ \A g \in GenreNames :
         GenreCount(g) = SumSeq([i \in 1..Len(df) |-> EntriesOf(df[i].listed_in, g)])

\* C6 amended: the per-genre counts sum to the total number of genres listed
\* by the records whose listed_in is not null, hence to at least the number
\* of those records, with equality iff each of them lists exactly one genre;
\* each listed genre of a record adds 1 to that genre's count and a record
\* whose listed_in is null adds nothing.
C6_GenreCountsAtLeastListedRows ==
  GenresCounted =>
    /\ SumCnt(genres) =
         SumSeq([i \in 1..Len(df) |->
                   IF isnull(df[i].listed_in) THEN 0 ELSE ListedCount(df[i].listed_in)])
    /\ SumCnt(genres) >= NonNullCount("listed_in")
    /\ SumCnt(genres) = NonNullCount("listed_in") <=>
         \A i \in 1..Len(df) :
           ~isnull(df[i].listed_in) => ListedCount(df[i].listed_in) = 1
    /\ \A g \in GenreNames :
         GenreCount(g) = SumSeq([i \in 1..Len(df) |-> EntriesOf(df[i].listed_in, g)])
    /\ Descending(genres)

C6_Witness ==
  /\ GenresCounted
  /\ \E i \in 1..Len(df) : isnull(df[i].listed_in)
  /\ \E i \in 1..Len(df) : ListedCount(df[i].listed_in) = 3
  /\ SumCnt(genres) = 4 /\ Len(df) = 3
  /\ GenreCount("Dramas") = 2 /\ GenreCount("Thrillers") = 1

\* analyze_runtime has plotted its distribution and returned.
RuntimePlotted == \E k \in 1..Len(completed) : completed[k] = "runtime"

\* A number followed by the trailing suffix " min".
IsMinutes(s) ==
  /\ Len(s) >= 2
  /\ s[Len(s)] = " min"
  /\ IsNumericText(SubSeq(s, 1, Len(s) - 1))

\* C8: the plotted distribution holds exactly one value per Movie record
\* whose duration is a number followed by the trailing " min", that number;
\* every other record contributes no value.
C8_OnlyTrailingMinMovies ==
  RuntimePlotted =>
    durations =
      LET rows == SelectSeq(df, LAMBDA r : r.type = <<"Movie">> /\ IsMinutes(r.duration))
      IN  [i \in 1..Len(rows) |->
             digits_value(SubSeq(rows[i].duration, 1, Len(rows[i].duration) - 1))]

YearsCounted == Printed(HeaderOf("years"))

YearRows(y) == Cardinality({k \in 1..Len(df) : df[k].release_year = y})

DistinctYears == {df[k].release_year : k \in 1..Len(df)} \ {<< >>}

\* C9: with d distinct release years, analyze_release_years reports exactly
\* min(10, d) years, each with its record count, in descending order of
\* count, equal counts in the order of the frequency count; no year left out
\* has more records than a reported year; the chart shows exactly the
\* reported years in the same order.
C9_TopTenReleaseYears ==
  YearsCounted =>
    /\ Len(release_years) = (IF Cardinality(DistinctYears) < 10
                             THEN Cardinality(DistinctYears) ELSE 10)
    /\ \A i \in 1..Len(release_years) :
         /\ release_years[i].value \in DistinctYears
         /\ release_years[i].cnt = YearRows(release_years[i].value)
    /\ \A i \in 1..Len(release_years), j \in 1..Len(release_years) :
         i # j => release_years[i].value # release_years[j].value
    /\ Descending(release_years)
    /\ IsPrefix(release_years, value_counts(column(df, "release_year")))
    /\ \A y \in DistinctYears \ {release_years[i].value : i \in 1..Len(release_years)} :
         \A i \in 1..Len(release_years) : YearRows(y) <= release_years[i].cnt
    /\ chart_order = [i \in 1..Len(release_years) |-> release_years[i].value]

C9_Witness ==
  /\ YearsCounted
  /\ Cardinality(DistinctYears) = 12
  /\ Len(release_years) = 10
  /\ release_years[1] = [value |-> <<2001>>, cnt |-> 2]
  /\ release_years[2] = [value |-> <<2012>>, cnt |-> 2]
  /\ release_years[10].value = <<2009>>
  /\ \E k \in 1..Len(df) : isnull(df[k].release_year)

Failed == Printed(MsgNotFound) \/ Printed(MsgError)

\* C3: the "file not found" message is printed iff the input file is
\* missing; every other failure, of the load or of a later stage, is
\* reported by the "An error occurred" message.
C3_NotFoundIffInputMissing ==
  pc = "exit" =>
    /\ Printed(MsgNotFound) <=> file = "missing"
    /\ (file # "missing" /\ ~Printed(MsgComplete)) => Printed(MsgError)

StageHeaders == SelectSeq(console, LAMBDA m : m \in Headers)

\* C4: the stages run in the fixed order after the load, each at most once;
\* after a failure nothing more runs; the chart files written form a prefix
\* of the five chart names; when main has ended the completion message is
\* printed iff all five stages completed, and then without any failure.
C4_StagesInOrderAndPrefix ==
  /\ console # << >> => console[1] = "Loading data"
  /\ Cardinality({i \in 1..Len(console) : console[i] = "Loading data"}) <= 1
  /\ IsPrefix(StageHeaders, [i \in 1..Len(StageOrder) |-> HeaderOf(StageOrder[i])])
  /\ IsPrefix(completed, StageOrder)
  /\ IsPrefix(charts, ChartOrder)
  /\ Len(StageHeaders) \in {Len(completed), Len(completed) + 1}
  /\ Len(charts) \in {Len(completed), Len(completed) + 1}
  /\ Len(StageHeaders) > Len(completed) => Failed
  /\ Failed => pc = "exit" /\ console[Len(console)] \in {MsgNotFound, MsgError}
  /\ StageHeaders # << >> => Loaded
  /\ pc = "exit" => (Printed(MsgComplete) <=> completed = StageOrder)
  /\ Printed(MsgComplete) => ~Failed /\ pc = "exit" /\ charts = ChartOrder

C4_Witness ==
  /\ pc = "exit"
  /\ Printed(MsgError)
  /\ completed = <<"type", "growth">>
  /\ Len(StageHeaders) = 3
  /\ charts = <<"distribution_type", "content_growth">>
  /\ ~Printed(MsgComplete)

\* C5: once load_and_clean_data has returned, the cleaned table keeps its
\* rows, columns and values through every stage; analyze_runtime adds
\* duration_min to its own copy of the Movie rows only.
C5_StagesLeaveTableUnchanged ==
  Loaded =>
    /\ df = clean(raw)
    /\ \A i \in 1..Len(df) :
         DOMAIN df[i] = DOMAIN BaseRow \cup {"year_added", "month_added"}
    /\ RuntimePlotted =>
         /\ Len(movies) = Cardinality({i \in 1..Len(df) : df[i].type = <<"Movie">>})
         /\ \A i \in 1..Len(movies) :
              /\ movies[i].type = <<"Movie">>
              /\ DOMAIN movies[i] = DOMAIN BaseRow \cup
                                      {"year_added", "month_added", "duration_min"}
              /\ \E k \in 1..Len(df) :
                   \A col \in DOMAIN df[k] : df[k][col] = movies[i][col]

C5_Witness ==
  /\ Printed(MsgComplete)
  /\ Len(movies) = 2 /\ Len(df) = 3
  /\ movies[1].duration_min = <<90>>
  /\ isnull(movies[2].duration_min)

====
